---- MODULE Spec2Model ----
(***************************************************************************)
(* Model of wifiphisher/common/phishingpage.py: the template validator,   *)
(* the PhishingTemplate entity and the TemplateManager registry, over an  *)
(* abstract filesystem.                                                    *)
(*                                                                         *)
(* A path is a sequence of tokens; the token "/" is the separator and any  *)
(* other token is a piece of a file name, so that string concatenation    *)
(* (static_path + filename) and os.path.join give different sequences.    *)
(***************************************************************************)
EXTENDS Integers, Sequences, FiniteSets, TLC

VARIABLES
    root,       \* entries of PHISHING_PAGES_DIR: name -> directory record
    cwd,        \* names that are directories in the current working directory
    files,      \* regular files that exist inside the asset trees (paths)
    locked,     \* paths on which os.remove fails
    templates,  \* TemplateManager.templates: name -> PhishingTemplate
    phase,      \* "new", "ready" (constructed), "failed", "exited"
    last,       \* the last call: operation, receiver, argument, exception, result
    copied      \* paths that use_file has copied to during the session

vars == <<root, cwd, files, locked, templates, phase, last, copied>>

----------------------------------------------------------------------------
(* Bounds *)

MaxStaged == 2      \* longest _extra_files list explored

----------------------------------------------------------------------------
(* Paths: os.path.dirname, basename, join, str.lower, str.endswith *)

SEP == "/"

RECURSIVE LastSep(_, _)
\* p.rfind('/') + 1 within the first i tokens
LastSep(p, i) ==
    IF i = 0 THEN 0
    ELSE IF p[i] = SEP THEN i ELSE LastSep(p, i - 1)

RECURSIVE RStripSep(_)
RStripSep(p) ==
    IF p # <<>> /\ p[Len(p)] = SEP THEN RStripSep(SubSeq(p, 1, Len(p) - 1)) ELSE p

AllSep(p) == \A i \in 1..Len(p) : p[i] = SEP

Dirname(p) ==
    LET head == SubSeq(p, 1, LastSep(p, Len(p)))
    IN  IF head # <<>> /\ ~AllSep(head) THEN RStripSep(head) ELSE head

Basename(p) == SubSeq(p, LastSep(p, Len(p)) + 1, Len(p))

JoinPath(a, b) ==
    IF b # <<>> /\ b[1] = SEP THEN b
    ELSE IF a = <<>> \/ a[Len(a)] = SEP THEN a \o b
    ELSE a \o <<SEP>> \o b

LowerTok(t) ==
    CASE t = "Usr" -> "usr"
      [] t = "Tpl" -> "tpl"
      [] OTHER -> t

Lower(p) == [i \in 1..Len(p) |-> LowerTok(p[i])]

EndsWithHtml(p) == p # <<>> /\ p[Len(p)] = ".html"

----------------------------------------------------------------------------
(* wifiphisher.common.constants *)

PHISHING_PAGES_DIR == <<SEP, "pages">>
SCENARIO_HTML_DIR == "html"
CONFIG_INI == <<"config", ".ini">>

----------------------------------------------------------------------------
(* The filesystem *)

EmptyMap == <<>>

NoDescriptor == [sections |-> {}, info |-> EmptyMap, context |-> EmptyMap]

\* a root entry that is not a directory
NoEntry == [kind |-> "none", config |-> FALSE, html |-> "missing",
            entries |-> {}, desc |-> NoDescriptor]
FileEntry == [NoEntry EXCEPT !.kind = "file"]

TemplateDir(n) == JoinPath(PHISHING_PAGES_DIR, <<n>>)
HtmlDir(n) == JoinPath(TemplateDir(n), <<SCENARIO_HTML_DIR>>)

IsDir(fs, n) == n \in DOMAIN fs /\ fs[n].kind = "dir"

\* the directory of the root that holds path p directly, if any
HtmlDirExists(fs, p) ==
    \E n \in DOMAIN fs : IsDir(fs, n) /\ fs[n].html # "missing" /\ Dirname(p) = HtmlDir(n)

\* os.listdir(<root>/<name>/<SCENARIO_HTML_DIR>): the entries the directory
\* was created with and the files copied into it since
HtmlListing(fs, fl, n) ==
    fs[n].entries \cup {Basename(f) : f \in {g \in fl : Dirname(g) = HtmlDir(n)}}

\* os.listdir(<root>/<name>)
DirListing(fs, n) ==
    (IF fs[n].config THEN {CONFIG_INI} ELSE {})
    \cup (IF fs[n].html # "missing" THEN {<<SCENARIO_HTML_DIR>>} ELSE {})

----------------------------------------------------------------------------
(* config_section_map and the descriptor on disk.  ConfigParser is taken  *)
(* as a store of sections of key-value pairs: a descriptor is the mapping  *)
(* the reader returns, its file syntax is not modelled.                    *)

ReadDescriptor(fs, n) ==
    IF IsDir(fs, n) /\ fs[n].config THEN fs[n].desc ELSE NoDescriptor

config_section_map(fs, n, section) ==
    LET config == ReadDescriptor(fs, n)
    IN  IF section \notin config.sections THEN EmptyMap
        ELSE IF section = "info" THEN config.info ELSE config.context

----------------------------------------------------------------------------
(* TemplateManager.is_valid_template *)

\* is_valid_template with the assets directory looked at before config.ini
is_valid_template_html_first(fs, fl, name) ==
    IF ~IsDir(fs, name)
    THEN [raised |-> "OSError", ok |-> FALSE, output |-> ""]
    ELSE IF fs[name].html # "ok"
    THEN [raised |-> "", ok |-> FALSE,
          output |-> "No " \o SCENARIO_HTML_DIR \o " directory found in: "]
    ELSE IF CONFIG_INI \notin DirListing(fs, name)
    THEN [raised |-> "", ok |-> FALSE, output |-> "Configuration file not found in: "]
    ELSE IF ~\E tfile \in HtmlListing(fs, fl, name) : EndsWithHtml(tfile)
    THEN [raised |-> "", ok |-> FALSE, output |-> "No HTML files found in: "]
    ELSE [raised |-> "", ok |-> TRUE, output |-> name]

is_valid_template(fs, fl, name) ==
    IF ~IsDir(fs, name)
    THEN [raised |-> "OSError", ok |-> FALSE, output |-> ""]
    ELSE IF CONFIG_INI \notin DirListing(fs, name)
    THEN [raised |-> "", ok |-> FALSE, output |-> "Configuration file not found in: "]
    ELSE IF fs[name].html # "ok"
    THEN [raised |-> "", ok |-> FALSE,
          output |-> "No " \o SCENARIO_HTML_DIR \o " directory found in: "]
    ELSE IF ~\E tfile \in HtmlListing(fs, fl, name) : EndsWithHtml(tfile)
    THEN [raised |-> "", ok |-> FALSE, output |-> "No HTML files found in: "]
    ELSE [raised |-> "", ok |-> TRUE, output |-> name]

----------------------------------------------------------------------------
(* PhishingTemplate *)

NoPayload == [set |-> FALSE, val |-> <<>>]

\* self._payload after "if 'payloadpath' in info"
PayloadOf(info) ==
    IF "payloadpath" \in DOMAIN info
    THEN [set |-> TRUE, val |-> info["payloadpath"]]
    ELSE NoPayload

\* PhishingTemplate.__init__: the attribute _context is not assigned here
NewTemplate(fs, name) ==
    LET info == config_section_map(fs, name, "info")
    IN  IF "name" \notin DOMAIN info \/ "description" \notin DOMAIN info
        THEN [raised |-> "KeyError", obj |-> <<>>]
        ELSE [raised |-> "",
              obj |-> [name |-> name,
                       display_name |-> info["name"],
                       description |-> info["description"],
                       payload |-> PayloadOf(info),
                       path |-> JoinPath(JoinPath(PHISHING_PAGES_DIR, Lower(<<name>>)),
                                         <<SCENARIO_HTML_DIR>>),
                       static_path |-> JoinPath(JoinPath(JoinPath(PHISHING_PAGES_DIR,
                                                                  Lower(<<name>>)),
                                                         <<SCENARIO_HTML_DIR>>),
                                                <<"static">>),
                       context |-> config_section_map(fs, name, "context"),
                       has_context |-> FALSE,
                       ctx |-> EmptyMap,
                       extra_files |-> <<>>]]

\* the info section with payloadpath set to the bare file name
NewInfoBare(old, payload_filename) ==
    [option \in DOMAIN old |->
        IF option # "payloadpath" THEN old[option] ELSE payload_filename]

\* the info section update_config_file builds
NewInfo(old, payload_filename) ==
    [option \in DOMAIN old |->
        IF option # "payloadpath" THEN old[option]
        ELSE JoinPath(Dirname(old["payloadpath"]), payload_filename)]

\* the context section update_config_file builds
NewContext(old, payload_filename) ==
    [option \in {"update_path"} |->
        JoinPath(Dirname(old["update_path"]), payload_filename)]

\* PhishingTemplate.update_config_file up to the open(): the configuration
\* it is about to write, or the exception raised while building it
BuildConfig(fs, name, payload_filename) ==
    LET original_config == ReadDescriptor(fs, name)
    IN  IF "info" \notin original_config.sections
        THEN [raised |-> "NoSectionError", desc |-> NoDescriptor]
        ELSE IF "context" \notin original_config.sections
        THEN [raised |-> "NoSectionError", desc |-> NoDescriptor]
        ELSE IF "update_path" \notin DOMAIN original_config.context
        THEN [raised |-> "NoOptionError", desc |-> NoDescriptor]
        ELSE [raised |-> "",
              desc |-> [sections |-> {"info", "context"},
                        info |-> NewInfo(original_config.info, payload_filename),
                        context |-> NewContext(original_config.context,
                                               payload_filename)]]

\* what open(config_path, 'wb') followed by config.write can leave on disk:
\* "ok" the whole file; "open" the open fails and the file is untouched;
\* "empty" the file was truncated and nothing written; "partial" the write
\* stopped after the info section
WriteOutcomes == {"ok", "open", "empty", "partial"}

WrittenDesc(old, new, outcome) ==
    CASE outcome = "ok" -> new
      [] outcome = "open" -> old
      [] outcome = "empty" -> NoDescriptor
      [] OTHER -> [sections |-> {"info"}, info |-> new.info, context |-> EmptyMap]

\* PhishingTemplate.update_config_file: the filesystem after it, what it
\* raised, and what became of the write ("none" when it was not reached)
update_config_file(fs, name, payload_filename, outcome) ==
    LET built == BuildConfig(fs, name, payload_filename)
    IN  IF built.raised # "" THEN [raised |-> built.raised, fs |-> fs, wrote |-> "none"]
        ELSE [raised |-> IF outcome = "ok" THEN "" ELSE "IOError",
              fs |-> [fs EXCEPT ![name].desc =
                                    WrittenDesc(fs[name].desc, built.desc, outcome)],
              wrote |-> outcome]

\* update_payload_path resetting the attributes before the file is written
update_payload_path_early(self, fs, filename, outcome) ==
    LET upd == update_config_file(fs, self.name, filename, outcome)
        reset == [self EXCEPT !.payload = NoPayload, !.extra_files = <<>>]
    IN  IF upd.raised # ""
        THEN [raised |-> upd.raised, fs |-> upd.fs, wrote |-> upd.wrote, self |-> reset]
        ELSE [raised |-> "",
              fs |-> upd.fs,
              wrote |-> upd.wrote,
              self |-> [reset EXCEPT
                          !.payload = PayloadOf(config_section_map(upd.fs, self.name, "info")),
                          !.has_context = TRUE,
                          !.ctx = config_section_map(upd.fs, self.name, "context")]]

\* PhishingTemplate.update_payload_path
update_payload_path(self, fs, filename, outcome) ==
    LET upd == update_config_file(fs, self.name, filename, outcome)
    IN  IF upd.raised # ""
        THEN [raised |-> upd.raised, fs |-> upd.fs, wrote |-> upd.wrote, self |-> self]
        ELSE [raised |-> "",
              fs |-> upd.fs,
              wrote |-> upd.wrote,
              self |-> [self EXCEPT
                          !.payload = PayloadOf(config_section_map(upd.fs, self.name, "info")),
                          !.has_context = TRUE,
                          !.ctx = config_section_map(upd.fs, self.name, "context"),
                          !.extra_files = <<>>]]

\* dict.update: the entries of b, and the entries of a under the other keys
DictUpdate(a, b) ==
    [k \in DOMAIN a \cup DOMAIN b |-> IF k \in DOMAIN b THEN b[k] ELSE a[k]]

\* PhishingTemplate.merge_context
merge_context(self, context) ==
    IF ~self.has_context THEN [raised |-> "AttributeError", self |-> self]
    ELSE [raised |-> "", self |-> [self EXCEPT !.ctx = DictUpdate(context, self.ctx)]]

get_payload_path(self) == self.payload

has_payload(self) == self.payload.set /\ self.payload.val # <<>>

\* the files use_file can be given that exist
SourceFiles == {<<SEP, "tmp", SEP, "f">>, <<SEP, "tmp", SEP, "g", ".html">>}

\* the ways shutil.copyfile(path, dest) ends: the copy is written, the
\* destination cannot be opened, the write fails after the destination
\* was created
CopyOutcomes == {"ok", "fail", "torn"}

\* use_file with the path recorded before the copy is made
use_file_append_first(self, fs, fl, path, outcome) ==
    IF path # <<>> /\ path \in SourceFiles
    THEN LET filename == Basename(path)
             dest == self.static_path \o filename
             staged == [self EXCEPT !.extra_files = Append(@, dest)]
         IN  IF HtmlDirExists(fs, dest) /\ outcome = "ok"
             THEN [raised |-> "", ret |-> filename, files |-> fl \cup {dest}, self |-> staged]
             ELSE [raised |-> "IOError", ret |-> <<>>,
                   files |-> IF HtmlDirExists(fs, dest) /\ outcome = "torn"
                             THEN fl \cup {dest} ELSE fl,
                   self |-> staged]
    ELSE [raised |-> "", ret |-> <<>>, files |-> fl, self |-> self]

\* PhishingTemplate.use_file; outcome is how shutil.copyfile ends when the
\* directory of the destination exists
use_file(self, fs, fl, path, outcome) ==
    IF path # <<>> /\ path \in SourceFiles
    THEN LET filename == Basename(path)
             dest == self.static_path \o filename
         IN  IF HtmlDirExists(fs, dest) /\ outcome = "ok"
             THEN [raised |-> "", ret |-> filename, files |-> fl \cup {dest},
                   self |-> [self EXCEPT !.extra_files = Append(@, dest)]]
             ELSE [raised |-> "IOError", ret |-> <<>>,
                   files |-> IF HtmlDirExists(fs, dest) /\ outcome = "torn"
                             THEN fl \cup {dest} ELSE fl,
                   self |-> self]
    ELSE [raised |-> "", ret |-> <<>>, files |-> fl, self |-> self]

RECURSIVE RemoveFrom(_, _, _, _, _)
\* the loop of remove_extra_files from position i: removed is the list of
\* os.remove calls made so far
RemoveFrom(extra, i, fl, lk, removed) ==
    IF i > Len(extra) THEN [raised |-> "", files |-> fl, removed |-> removed]
    ELSE IF extra[i] \in fl
    THEN IF extra[i] \in lk
         THEN [raised |-> "OSError", files |-> fl, removed |-> Append(removed, extra[i])]
         ELSE RemoveFrom(extra, i + 1, fl \ {extra[i]}, lk, Append(removed, extra[i]))
    ELSE RemoveFrom(extra, i + 1, fl, lk, removed)

RECURSIVE RemoveAllFrom(_, _, _, _, _)
\* the loop without the os.path.isfile test: os.remove of a missing file raises
RemoveAllFrom(extra, i, fl, lk, removed) ==
    IF i > Len(extra) THEN [raised |-> "", files |-> fl, removed |-> removed]
    ELSE IF extra[i] \in fl /\ extra[i] \notin lk
    THEN RemoveAllFrom(extra, i + 1, fl \ {extra[i]}, lk, Append(removed, extra[i]))
    ELSE [raised |-> "OSError", files |-> fl, removed |-> Append(removed, extra[i])]

remove_extra_files_unchecked(self, fl, lk) == RemoveAllFrom(self.extra_files, 1, fl, lk, <<>>)

\* PhishingTemplate.remove_extra_files
remove_extra_files(self, fl, lk) == RemoveFrom(self.extra_files, 1, fl, lk, <<>>)

----------------------------------------------------------------------------
(* TemplateManager *)

\* os.listdir(PHISHING_PAGES_DIR), as a set
Listing(fs) == {n \in DOMAIN fs : fs[n].kind # "none"}

\* the orders in which a listing or a dict can enumerate the set S
Orders(S) ==
    {o \in [1..Cardinality(S) -> S] : \A i, j \in 1..Cardinality(S) : o[i] = o[j] => i = j}

Insert(tmpl, n, obj) ==
    [k \in DOMAIN tmpl \cup {n} |-> IF k = n THEN obj ELSE tmpl[k]]

RECURSIVE FindFrom(_, _, _, _, _, _, _)
\* the loop of find_user_templates from position i of the listing
FindFrom(order, i, fs, fl, tmpl, found, printed) ==
    IF i > Len(order) THEN [local_templates |-> found, printed |-> printed]
    ELSE LET name == order[i]
         IN  IF IsDir(fs, name) /\ name \notin DOMAIN tmpl
             THEN LET v == is_valid_template(fs, fl, name)
                  IN  IF v.ok
                      THEN FindFrom(order, i + 1, fs, fl, tmpl, Append(found, name), printed)
                      ELSE FindFrom(order, i + 1, fs, fl, tmpl, found,
                                    Append(printed, <<v.output, name>>))
             ELSE FindFrom(order, i + 1, fs, fl, tmpl, found, printed)

\* find_user_templates without the "name not in self.templates" test
find_user_templates_all(fs, fl, tmpl, order) == FindFrom(order, 1, fs, fl, <<>>, <<>>, <<>>)

\* TemplateManager.find_user_templates
find_user_templates(fs, fl, tmpl, order) == FindFrom(order, 1, fs, fl, tmpl, <<>>, <<>>)

RECURSIVE AddFromSkipping(_, _, _, _, _)
\* the loop of add_user_templates with the construction guarded: a template
\* whose construction raises is skipped
AddFromSkipping(user_templates, i, fs, tmpl, built) ==
    IF i > Len(user_templates) THEN [raised |-> "", templates |-> tmpl, built |-> built]
    ELSE LET template == user_templates[i]
             t == NewTemplate(fs, template)
         IN  IF t.raised # ""
             THEN AddFromSkipping(user_templates, i + 1, fs, tmpl, Append(built, template))
             ELSE AddFromSkipping(user_templates, i + 1, fs, Insert(tmpl, template, t.obj),
                                  Append(built, template))

RECURSIVE AddFrom(_, _, _, _, _)
\* the loop of add_user_templates from position i of user_templates;
\* built lists the names PhishingTemplate was constructed for
AddFrom(user_templates, i, fs, tmpl, built) ==
    IF i > Len(user_templates) THEN [raised |-> "", templates |-> tmpl, built |-> built]
    ELSE LET template == user_templates[i]
             t == NewTemplate(fs, template)
         IN  IF t.raised # ""
             THEN [raised |-> t.raised, templates |-> tmpl, built |-> Append(built, template)]
             ELSE AddFrom(user_templates, i + 1, fs, Insert(tmpl, template, t.obj),
                          Append(built, template))

\* TemplateManager.add_user_templates
add_user_templates(fs, fl, tmpl, order) ==
    LET found == find_user_templates(fs, fl, tmpl, order)
        added == AddFrom(found.local_templates, 1, fs, tmpl, <<>>)
    IN  [raised |-> added.raised, templates |-> added.templates,
         built |-> added.built, printed |-> found.printed]

\* os.path.isdir(page) in TemplateManager.__init__: page is looked up in the
\* current working directory
IsDirInCwd(cw, page) == page \in cw

RECURSIVE ScanFrom(_, _, _, _, _, _, _)
\* the first loop of TemplateManager.__init__ from position i of page_dirs
ScanFrom(page_dirs, i, fs, fl, cw, tmpl, built) ==
    IF i > Len(page_dirs) THEN [raised |-> "", templates |-> tmpl, built |-> built]
    ELSE LET page == page_dirs[i]
         IN  IF ~IsDirInCwd(cw, page)
             THEN ScanFrom(page_dirs, i + 1, fs, fl, cw, tmpl, built)
             ELSE LET v == is_valid_template(fs, fl, page)
                  IN  IF v.raised # ""
                      THEN [raised |-> v.raised, templates |-> tmpl, built |-> built]
                      ELSE IF ~v.ok
                      THEN ScanFrom(page_dirs, i + 1, fs, fl, cw, tmpl, built)
                      ELSE LET t == NewTemplate(fs, page)
                           IN  IF t.raised # ""
                               THEN [raised |-> t.raised, templates |-> tmpl,
                                     built |-> Append(built, page)]
                               ELSE ScanFrom(page_dirs, i + 1, fs, fl, cw,
                                             Insert(tmpl, page, t.obj), Append(built, page))

\* TemplateManager.__init__
NewManager(fs, fl, cw, order) ==
    LET scan == ScanFrom(order, 1, fs, fl, cw, <<>>, <<>>)
    IN  IF scan.raised # ""
        THEN [raised |-> scan.raised, templates |-> scan.templates,
              built |-> scan.built, printed |-> <<>>]
        ELSE LET added == add_user_templates(fs, fl, scan.templates, order)
             IN  [raised |-> added.raised, templates |-> added.templates,
                  built |-> scan.built \o added.built, printed |-> added.printed]

RECURSIVE ExitFrom(_, _, _, _, _, _)
\* the loop of on_exit from position i of templates.values(); visited lists
\* the entities remove_extra_files was called on
ExitFrom(order, i, tmpl, fl, lk, visited) ==
    IF i > Len(order) THEN [raised |-> "", files |-> fl, visited |-> visited]
    ELSE LET r == remove_extra_files(tmpl[order[i]], fl, lk)
         IN  IF r.raised # ""
             THEN [raised |-> r.raised, files |-> r.files, visited |-> Append(visited, order[i])]
             ELSE ExitFrom(order, i + 1, tmpl, r.files, lk, Append(visited, order[i]))

\* TemplateManager.on_exit
on_exit(tmpl, fl, lk, order) == ExitFrom(order, 1, tmpl, fl, lk, <<>>)

----------------------------------------------------------------------------
(* Inputs and initial filesystems *)

Names == {"tpl", "usr", "Usr"}

\* values of payloadpath and update_path: with a directory, without one,
\* directly under the filesystem root
OldPaths == {<<"d", SEP, "old", ".exe">>, <<"old", ".exe">>, <<SEP, "old", ".exe">>}

\* the file names update_payload_path is called with
PayloadNames == {<<"new", ".exe">>, <<"p2">>}

\* the dicts merge_context is called with
Incoming ==
    {EmptyMap,
     [k \in {"a", "b"} |-> IF k = "a" THEN <<"2">> ELSE <<"3">>],
     [k \in {"update_path"} |-> <<"x">>]}

\* the paths use_file is called with: the files that exist, the empty
\* string, a path that names no file
UsePaths == SourceFiles \cup {<<>>, <<SEP, "tmp", SEP, "gone">>}

InfoOf(keys, p) ==
    [k \in keys |->
        CASE k = "name" -> <<"Page">>
          [] k = "description" -> <<"A", "page">>
          [] k = "payloadpath" -> p
          [] OTHER -> <<"v">>]

ContextOf(keys, u) ==
    [k \in keys |-> IF k = "update_path" THEN u ELSE <<"1">>]

Descriptor(ikeys, p, ckeys, u) ==
    [sections |-> {"info", "context"}, info |-> InfoOf(ikeys, p), context |-> ContextOf(ckeys, u)]

\* a plain descriptor: the required keys and no payload
PlainDescriptor == Descriptor({"name", "description"}, <<>>, {"a"}, <<>>)

\* descriptors of templates with a payload, complete and incomplete
PayloadDescriptors ==
    {Descriptor({"name", "description", "payloadpath", "author"}, p, {"update_path", "a"}, p) :
        p \in OldPaths}
    \cup {Descriptor({"name", "description"}, <<>>, {"update_path", "a"}, <<"d", SEP, "old", ".exe">>),
          Descriptor({"name", "description", "payloadpath"}, <<"d", SEP, "old", ".exe">>, {"a"}, <<>>),
          [sections |-> {"info"},
           info |-> InfoOf({"name", "description", "payloadpath"}, <<"d", SEP, "old", ".exe">>),
           context |-> EmptyMap]}

INDEX_HTML == <<"index", ".html">>
README_TXT == <<"readme", ".txt">>

\* a directory that passes is_valid_template, holding descriptor desc
GoodDir(desc) ==
    [kind |-> "dir", config |-> TRUE, html |-> "ok", entries |-> {INDEX_HTML}, desc |-> desc]

\* every shape of template directory the validator tells apart
DirShapes ==
    {[kind |-> "dir", config |-> c, html |-> h, entries |-> e,
      desc |-> IF c THEN PlainDescriptor ELSE NoDescriptor] :
        c \in BOOLEAN, h \in {"missing", "unlistable", "ok"},
        e \in SUBSET {INDEX_HTML, README_TXT}}

WellFormedDir(d) == d.html = "missing" => d.entries = {}

\* the root entries the registry is constructed on
RegistryShapes ==
    {NoEntry, FileEntry, GoodDir(PlainDescriptor),
     GoodDir(Descriptor({"description"}, <<>>, {}, <<>>)),
     GoodDir(Descriptor({"name"}, <<>>, {}, <<>>)),
     [kind |-> "dir", config |-> FALSE, html |-> "ok", entries |-> {INDEX_HTML},
      desc |-> NoDescriptor],
     [kind |-> "dir", config |-> TRUE, html |-> "missing", entries |-> {},
      desc |-> PlainDescriptor],
     [kind |-> "dir", config |-> TRUE, html |-> "ok", entries |-> {README_TXT},
      desc |-> PlainDescriptor]}

NoCall == [op |-> "none", name |-> "", arg |-> <<>>, raised |-> "", ret |-> <<>>]

Call(op, name, arg, raised, ret) ==
    [op |-> op, name |-> name, arg |-> arg, raised |-> raised, ret |-> ret]

----------------------------------------------------------------------------
(* Actions *)

\* a call of is_valid_template(name)
Validate(name) ==
    /\ name \in Names
    /\ LET v == is_valid_template(root, files, name)
       IN  last' = Call("validate", name, <<>>, v.raised, <<v.ok, v.output>>)
    /\ UNCHANGED <<root, cwd, files, locked, templates, phase, copied>>

\* TemplateManager()
Construct(order) ==
    /\ phase = "new"
    /\ LET m == NewManager(root, files, cwd, order)
       IN  /\ phase' = IF m.raised = "" THEN "ready" ELSE "failed"
           /\ templates' = IF m.raised = "" THEN m.templates ELSE <<>>
           /\ last' = Call("construct", "", order, m.raised,
                           [built |-> m.built, printed |-> m.printed])
    /\ UNCHANGED <<root, cwd, files, locked, copied>>

\* manager.find_user_templates()
FindUserTemplates(order) ==
    /\ phase = "ready"
    /\ last' = Call("find", "", order, "", find_user_templates(root, files, templates, order))
    /\ UNCHANGED <<root, cwd, files, locked, templates, phase, copied>>

\* manager.add_user_templates()
AddUserTemplates(order) ==
    /\ phase = "ready"
    /\ LET r == add_user_templates(root, files, templates, order)
       IN  /\ templates' = r.templates
           /\ last' = Call("add", "", order, r.raised,
                           [built |-> r.built, printed |-> r.printed])
    /\ UNCHANGED <<root, cwd, files, locked, phase, copied>>

\* the user creates template directory name under the root
MkTemplate(name, dir) ==
    /\ root[name].kind = "none"
    /\ root' = [root EXCEPT ![name] = dir]
    /\ last' = Call("mkdir", name, <<>>, "", <<>>)
    /\ UNCHANGED <<cwd, files, locked, templates, phase, copied>>

\* the user rewrites config.ini of template directory name by hand
ExternalEdit(name, desc) ==
    /\ IsDir(root, name) /\ root[name].config
    /\ root[name].desc # desc
    /\ root' = [root EXCEPT ![name].desc = desc]
    /\ last' = Call("edit", name, <<>>, "", <<>>)
    /\ UNCHANGED <<cwd, files, locked, templates, phase, copied>>

\* templates[name].use_file(path)
UseFile(name, path, outcome) ==
    /\ phase = "ready"
    /\ name \in DOMAIN templates
    /\ Len(templates[name].extra_files) < MaxStaged
    /\ LET r == use_file(templates[name], root, files, path, outcome)
       IN  /\ templates' = [templates EXCEPT ![name] = r.self]
           /\ files' = r.files
           /\ copied' = IF r.raised = "" /\ r.ret # <<>>
                        THEN copied \cup {templates[name].static_path \o r.ret}
                        ELSE copied
           /\ last' = Call("use_file", name, path, r.raised, r.ret)
    /\ UNCHANGED <<root, cwd, locked, phase>>

\* templates[name].merge_context(context)
MergeContext(name, context) ==
    /\ phase = "ready"
    /\ name \in DOMAIN templates
    /\ LET r == merge_context(templates[name], context)
       IN  /\ templates' = [templates EXCEPT ![name] = r.self]
           /\ last' = Call("merge_context", name, context, r.raised, <<>>)
    /\ UNCHANGED <<root, cwd, files, locked, phase, copied>>

\* templates[name].update_payload_path(filename)
UpdatePayloadPath(name, filename, outcome) ==
    /\ phase = "ready"
    /\ name \in DOMAIN templates
    /\ LET r == update_payload_path(templates[name], root, filename, outcome)
       IN  /\ templates' = [templates EXCEPT ![name] = r.self]
           /\ root' = r.fs
           /\ last' = Call("update_payload_path", name, filename, r.raised, r.wrote)
    /\ UNCHANGED <<cwd, files, locked, phase, copied>>

\* templates[name].remove_extra_files()
RemoveExtraFiles(name) ==
    /\ phase = "ready"
    /\ name \in DOMAIN templates
    /\ LET r == remove_extra_files(templates[name], files, locked)
       IN  /\ files' = r.files
           /\ last' = Call("remove_extra_files", name, <<>>, r.raised, r.removed)
    /\ UNCHANGED <<root, cwd, locked, templates, phase, copied>>

\* manager.on_exit() at the end of the session
OnExit(order) ==
    /\ phase = "ready"
    /\ LET r == on_exit(templates, files, locked, order)
       IN  /\ files' = r.files
           /\ last' = Call("on_exit", "", order, r.raised, r.visited)
    /\ phase' = "exited"
    /\ UNCHANGED <<root, cwd, locked, templates, copied>>

----------------------------------------------------------------------------
(* Specifications *)

\* the validator on every shape of directory
InitV ==
    /\ root \in {r \in [Names -> DirShapes \cup {NoEntry, FileEntry}] :
                    /\ r["Usr"] = NoEntry
                    /\ r["usr"] \in {NoEntry, FileEntry, GoodDir(PlainDescriptor)}
                    /\ WellFormedDir(r["tpl"])}
    /\ cwd = {}
    /\ files \in {fl \in SUBSET {HtmlDir("tpl") \o <<SEP, "static", "g", ".html">>} :
                     fl # {} => root["tpl"].kind = "dir" /\ root["tpl"].html # "missing"}
    /\ locked = {}
    /\ templates = <<>>
    /\ phase = "new"
    /\ last = NoCall
    /\ copied = {}

NextV == \E name \in Names : Validate(name)

SpecV == InitV /\ [][NextV]_vars

\* the registry on every root and working directory
InitR ==
    /\ root \in [Names -> RegistryShapes]
    /\ cwd \in SUBSET Names
    /\ files = {}
    /\ locked = {}
    /\ templates = <<>>
    /\ phase = "new"
    /\ last = NoCall
    /\ copied = {}

\* the template directories created under the root after construction: a
\* complete one and one whose descriptor lacks the name key
AddedDirs == {GoodDir(PlainDescriptor), GoodDir(Descriptor({"description"}, <<>>, {}, <<>>))}

NextR ==
    \/ \E order \in Orders(Listing(root)) : Construct(order)
    \/ \E order \in Orders(Listing(root)) : FindUserTemplates(order)
    \/ \E order \in Orders(Listing(root)) : AddUserTemplates(order)
    \/ \E name \in Names, dir \in AddedDirs : MkTemplate(name, dir)

SpecR == InitR /\ [][NextR]_vars

\* one template through its life: every descriptor, every input
Init ==
    /\ root \in {r \in [Names -> {NoEntry} \cup {GoodDir(d) : d \in PayloadDescriptors}] :
                    r["tpl"] # NoEntry /\ r["usr"] = NoEntry /\ r["Usr"] = NoEntry}
    /\ cwd = {}
    /\ files = {}
    /\ locked \in SUBSET {<<SEP, "pages", SEP, "tpl", SEP, "html", SEP, "static", "f">>}
    /\ templates = <<>>
    /\ phase = "new"
    /\ last = NoCall
    /\ copied = {}

Next ==
    \/ \E order \in Orders(Listing(root)) : Construct(order)
    \/ \E name \in Names, path \in UsePaths, outcome \in CopyOutcomes :
          UseFile(name, path, outcome)
    \/ \E name \in Names, context \in Incoming : MergeContext(name, context)
    \/ \E name \in Names, filename \in PayloadNames, outcome \in WriteOutcomes :
          UpdatePayloadPath(name, filename, outcome)
    \/ \E name \in Names : RemoveExtraFiles(name)
    \/ \E order \in Orders(DOMAIN templates) : OnExit(order)

Spec == Init /\ [][Next]_vars

\* a session over two templates, with templates added while it runs
SessionDescriptor ==
    Descriptor({"name", "description", "payloadpath"}, <<"d", SEP, "old", ".exe">>,
               {"update_path", "a"}, <<"d", SEP, "old", ".exe">>)

SessionDirs == {GoodDir(SessionDescriptor), GoodDir(Descriptor({"description"}, <<>>, {}, <<>>))}

SessionPaths == {<<SEP, "tmp", SEP, "f">>, <<>>}

InitS ==
    /\ root \in {r \in [Names -> {NoEntry, GoodDir(SessionDescriptor)}] :
                    r["tpl"] # NoEntry /\ r["Usr"] = NoEntry}
    /\ cwd = {}
    /\ files = {}
    /\ locked \in SUBSET {<<SEP, "pages", SEP, "tpl", SEP, "html", SEP, "static", "f">>,
                          <<SEP, "pages", SEP, "usr", SEP, "html", SEP, "static", "f">>}
    /\ templates = <<>>
    /\ phase = "new"
    /\ last = NoCall
    /\ copied = {}

NextS ==
    \/ \E order \in Orders(Listing(root)) : Construct(order)
    \/ \E order \in Orders(Listing(root)) : FindUserTemplates(order)
    \/ \E order \in Orders(Listing(root)) : AddUserTemplates(order)
    \/ \E dir \in SessionDirs : MkTemplate("usr", dir)
    \/ \E name \in Names, path \in SessionPaths : UseFile(name, path, "ok")
    \/ \E name \in Names : MergeContext(name, [k \in {"a", "b"} |-> <<"2">>])
    \/ \E name \in Names : UpdatePayloadPath(name, <<"new", ".exe">>, "ok")
    \/ \E name \in Names : RemoveExtraFiles(name)
    \/ \E order \in Orders(DOMAIN templates) : OnExit(order)

SpecS == InitS /\ [][NextS]_vars

\* a session in which config.ini is edited by hand between the calls
EditedDescriptors ==
    {[sections |-> {"info", "context"},
      info |-> [k \in {"name", "description", "payloadpath", "author"} |->
                   CASE k = "payloadpath" -> <<"e", SEP, "old", ".exe">>
                     [] k = "author" -> <<"me">>
                     [] OTHER -> <<"Edited">>],
      context |-> [k \in {"update_path", "a"} |->
                      IF k = "update_path" THEN u ELSE <<"9">>]] :
        u \in {<<"e", SEP, "old", ".exe">>, <<"old", ".exe">>}}
    \cup {[SessionDescriptor EXCEPT !.info["description"] = <<"Edited">>]}

InitX ==
    /\ root = [n \in Names |-> IF n = "tpl" THEN GoodDir(SessionDescriptor) ELSE NoEntry]
    /\ cwd = {}
    /\ files = {}
    /\ locked = {}
    /\ templates = <<>>
    /\ phase = "new"
    /\ last = NoCall
    /\ copied = {}

NextX ==
    \/ \E order \in Orders(Listing(root)) : Construct(order)
    \/ \E name \in Names, desc \in EditedDescriptors : ExternalEdit(name, desc)
    \/ \E name \in Names, filename \in PayloadNames : UpdatePayloadPath(name, filename, "ok")
    \/ \E name \in Names, context \in Incoming : MergeContext(name, context)

SpecX == InitX /\ [][NextX]_vars

----------------------------------------------------------------------------
(* Properties *)

\* C1: once on_exit has run with no delete failing, no file that use_file
\* copied into an asset tree during the session still exists.
C1_StagedFilesRemovedOnExit ==
    (phase = "exited" /\ last.op = "on_exit" /\ last.raised = "")
        => copied \cap files = {}

\* the context an entity holds: the one left by update_payload_path or
\* merge_context when there is one, else the one loaded at construction
EntityContext(self) == IF self.has_context THEN self.ctx ELSE self.context

\* C plus the entries of I whose keys are not in C
MergedContext(C, I) ==
    [k \in DOMAIN C \cup DOMAIN I |-> IF k \in DOMAIN C THEN C[k] ELSE I[k]]

\* C2: merge_context(I) on an entity whose context is C completes without
\* error and leaves the context equal to C plus the entries of I under keys
\* not in C.
C2_MergeKeepsCurrent ==
    [][\A n \in DOMAIN templates :
          (last'.op = "merge_context" /\ last'.name = n)
              => /\ last'.raised = ""
                 /\ EntityContext(templates'[n]) =
                        MergedContext(EntityContext(templates[n]), last'.arg)]_vars

\* the entries of the assets directory of name
AssetEntries(name) ==
    root[name].entries
        \cup {Basename(f) : f \in {g \in files : SubSeq(g, 1, Len(HtmlDir(name)) + 1)
                                                   = HtmlDir(name) \o <<SEP>>}}

\* C3: for a directory under the root, is_valid_template returns (True, name)
\* exactly when it holds config.ini, its assets directory can be listed and
\* an entry there ends in .html; otherwise it returns False with the
\* message of the first rule that fails, in that order.
C3_ValidateFirstFailingRule ==
    (last.op = "validate" /\ root[last.name].kind = "dir")
        => LET d == root[last.name]
               hasHtml == \E e \in AssetEntries(last.name) : e[Len(e)] = ".html"
           IN  /\ last.raised = ""
               /\ (last.ret = <<TRUE, last.name>>) <=> (d.config /\ d.html = "ok" /\ hasHtml)
               /\ ~d.config => last.ret = <<FALSE, "Configuration file not found in: ">>
               /\ (d.config /\ d.html # "ok")
                     => last.ret = <<FALSE, "No html directory found in: ">>
               /\ (d.config /\ d.html = "ok" /\ ~hasHtml)
                     => last.ret = <<FALSE, "No HTML files found in: ">>

\* a directory with neither config.ini nor an assets directory was refused
\* for its missing config.ini
C3_Witness ==
    /\ last.op = "validate"
    /\ root[last.name].kind = "dir"
    /\ ~root[last.name].config
    /\ root[last.name].html = "missing"
    /\ last.ret = <<FALSE, "Configuration file not found in: ">>

\* the names the registry should hold: the root entries that are
\* directories and pass the validator
ValidDirs(fs, fl) == {n \in DOMAIN fs : IsDir(fs, n) /\ is_valid_template(fs, fl, n).ok}

\* a validated directory's descriptor holds the keys construction requires
Constructible(fs, n) ==
    {"name", "description"} \subseteq DOMAIN config_section_map(fs, n, "info")

\* C4: on any root whose valid directories hold complete descriptors, the
\* construction of the registry completes and the keys of templates are
\* exactly the root entries that are directories and pass the validator.
C4_RegistryHoldsValidDirs ==
    (last.op = "construct" /\ \A n \in ValidDirs(root, files) : Constructible(root, n))
        => /\ last.raised = ""
           /\ phase = "ready"
           /\ DOMAIN templates = ValidDirs(root, files)

Elements(seq) == {seq[i] : i \in 1..Len(seq)}

\* C5: a run of find_user_templates or add_user_templates never names or
\* constructs a template for an id that is already a key of templates, and
\* leaves the entity stored under it (staged files and context included)
\* as it was; no step removes a key of templates.
C5_KnownTemplatesKept ==
    [][\A id \in DOMAIN templates :
          /\ id \in DOMAIN templates'
          /\ last'.op = "find" => id \notin Elements(last'.ret.local_templates)
          /\ last'.op = "add" => /\ id \notin Elements(last'.ret.built)
                                 /\ templates'[id] = templates[id]]_vars

\* add_user_templates has added a template while another one, already
\* known, holds staged files and a merged context
C5_Witness ==
    /\ last.op = "add"
    /\ last.raised = ""
    /\ last.ret.built = <<"usr">>
    /\ "tpl" \in DOMAIN templates
    /\ templates["tpl"].extra_files # <<>>
    /\ templates["tpl"].has_context
    /\ "b" \in DOMAIN templates["tpl"].ctx

HasPayloadKeys(desc) ==
    /\ "info" \in desc.sections /\ "payloadpath" \in DOMAIN desc.info
    /\ "context" \in desc.sections /\ "update_path" \in DOMAIN desc.context

\* path q is file name f in the directory of path p
Replaces(q, p, f) == Dirname(q) = Dirname(p) /\ Basename(q) = f

\* C6: for a descriptor with info.payloadpath = P and context.update_path = U,
\* a successful update_payload_path(f) leaves get_payload_path() naming f in
\* the directory of P, the descriptor's info.payloadpath equal to it, and
\* its context.update_path naming f in the directory of U.
C6_PayloadPathRoundTrip ==
    [][\A n \in DOMAIN templates :
          (/\ last'.op = "update_payload_path" /\ last'.name = n /\ last'.raised = ""
           /\ HasPayloadKeys(root[n].desc))
              => LET P == root[n].desc.info["payloadpath"]
                     U == root[n].desc.context["update_path"]
                     f == last'.arg
                     got == get_payload_path(templates'[n])
                 IN  /\ got.set
                     /\ Replaces(got.val, P, f)
                     /\ HasPayloadKeys(root'[n].desc)
                     /\ root'[n].desc.info["payloadpath"] = got.val
                     /\ Replaces(root'[n].desc.context["update_path"], U, f)]_vars

\* the payload of a template whose payloadpath was d/old.exe is d/new.exe
\* after update_payload_path("new.exe"), in memory and on disk
C6_Witness ==
    /\ last.op = "update_payload_path"
    /\ last.raised = ""
    /\ last.name = "tpl"
    /\ last.arg = <<"new", ".exe">>
    /\ get_payload_path(templates["tpl"]) = [set |-> TRUE, val |-> <<"d", SEP, "new", ".exe">>]
    /\ root["tpl"].desc.info["payloadpath"] = <<"d", SEP, "new", ".exe">>

\* C7: when the write of the descriptor in update_payload_path fails, the
\* descriptor on disk is the whole old one or the whole new one, and the
\* payload in memory is the payloadpath on disk.
C7_DescriptorNeverPartial ==
    [][\A n \in DOMAIN templates :
          (/\ last'.op = "update_payload_path" /\ last'.name = n
           /\ last'.ret \in {"open", "empty", "partial"})
              => /\ \/ root'[n].desc = root[n].desc
                    \/ root'[n].desc = BuildConfig(root, n, last'.arg).desc
                 /\ (get_payload_path(templates[n])
                        = PayloadOf(config_section_map(root, n, "info")))
                      => (get_payload_path(templates'[n])
                            = PayloadOf(config_section_map(root', n, "info")))]_vars

\* C8: when the write of the descriptor in update_payload_path fails, the
\* call raises and the payload, both contexts and the staged files of the
\* entity are what they were before the call.
C8_FailedWriteKeepsEntity ==
    [][\A n \in DOMAIN templates :
          (/\ last'.op = "update_payload_path" /\ last'.name = n
           /\ last'.ret \in {"open", "empty", "partial"})
              => /\ last'.raised # ""
                 /\ templates'[n] = templates[n]]_vars

\* a write has failed on an entity that holds staged files and a payload
C8_Witness ==
    /\ last.op = "update_payload_path"
    /\ last.ret = "empty"
    /\ last.raised = "IOError"
    /\ templates[last.name].extra_files # <<>>
    /\ templates[last.name].payload.set

\* C9: when the descriptor on disk lacks context.update_path or lacks
\* info.payloadpath, update_payload_path raises and leaves the descriptor
\* file as it was.
C9_IncompleteDescriptorRefused ==
    [][\A n \in DOMAIN templates :
          (/\ last'.op = "update_payload_path" /\ last'.name = n
           /\ ~HasPayloadKeys(ReadDescriptor(root, n)))
              => /\ last'.raised # ""
                 /\ root' = root]_vars

NoDuplicates(seq) == \A i, j \in 1..Len(seq) : seq[i] = seq[j] => i = j

\* C10: remove_extra_files calls os.remove only on staged paths that exist,
\* once each, raises only when such a delete fails, deletes every staged
\* file when it returns, and leaves _extra_files as it was; a call right
\* after another on the same entity changes no file.
C10_RemoveIdempotent ==
    [][\A n \in DOMAIN templates :
          (last'.op = "remove_extra_files" /\ last'.name = n)
              => LET staged == Elements(templates[n].extra_files)
                 IN  /\ templates' = templates
                     /\ NoDuplicates(last'.ret)
                     /\ Elements(last'.ret) \subseteq staged \cap files
                     /\ files' \subseteq files
                     /\ files \ files' \subseteq Elements(last'.ret)
                     /\ last'.raised = "" => files' = files \ staged
                     /\ last'.raised # "" => staged \cap files \cap locked # {}
                     /\ (last.op = "remove_extra_files" /\ last.name = n)
                           => files' = files]_vars

\* remove_extra_files has returned on an entity whose _extra_files names
\* the same path twice, and the file is gone
C10_Witness ==
    /\ last.op = "remove_extra_files"
    /\ last.raised = ""
    /\ Len(last.ret) = 1
    /\ Len(templates[last.name].extra_files) = 2
    /\ templates[last.name].extra_files[1] = templates[last.name].extra_files[2]
    /\ templates[last.name].extra_files[1] \notin files

\* C11: on_exit does not raise when a delete fails: it calls
\* remove_extra_files on every entity of templates, and every staged file
\* that can be deleted is gone afterwards.
C11_ExitCleansBestEffort ==
    (phase = "exited" /\ last.op = "on_exit")
        => /\ last.raised = ""
           /\ Elements(last.ret) = DOMAIN templates
           /\ \A n \in DOMAIN templates :
                 \A p \in Elements(templates[n].extra_files) : p \notin locked => p \notin files

\* C12: a successful update_payload_path keeps every key of the descriptor:
\* the info keys other than payloadpath and the context keys other than
\* update_path keep their values, and no key is dropped or added.
C12_RewriteKeepsOtherKeys ==
    [][\A n \in DOMAIN templates :
          (last'.op = "update_payload_path" /\ last'.name = n /\ last'.raised = "")
              => LET old == ReadDescriptor(root, n)
                     new == ReadDescriptor(root', n)
                 IN  /\ DOMAIN new.info = DOMAIN old.info
                     /\ \A k \in DOMAIN old.info \ {"payloadpath"} : new.info[k] = old.info[k]
                     /\ DOMAIN new.context = DOMAIN old.context
                     /\ \A k \in DOMAIN old.context \ {"update_path"} :
                           new.context[k] = old.context[k]]_vars

\* C13: after a successful update_payload_path the context of the entity,
\* the one construction loaded and merge_context reads, is the context
\* section now on disk, and _extra_files is empty.
C13_ContextReloaded ==
    (last.op = "update_payload_path" /\ last.raised = "" /\ last.name \in DOMAIN templates)
        => LET self == templates[last.name]
               onDisk == config_section_map(root, last.name, "context")
           IN  /\ self.context = onDisk
               /\ EntityContext(self) = onDisk
               /\ self.extra_files = <<>>

\* C14: when config.ini was edited by hand after the entity was constructed,
\* update_payload_path rewrites the descriptor that is on disk at the call:
\* the edited values of the other info and context keys and the edited
\* directories of payloadpath and update_path are in the rewritten file.
C14_RewriteFromDisk ==
    [][\A n \in DOMAIN templates :
          (/\ last.op = "edit" /\ last.name = n
           /\ last'.op = "update_payload_path" /\ last'.name = n /\ last'.raised = ""
           /\ HasPayloadKeys(root[n].desc))
              => LET old == root[n].desc
                     new == root'[n].desc
                     f == last'.arg
                 IN  /\ \A k \in DOMAIN old.info \ {"payloadpath"} :
                            k \in DOMAIN new.info /\ new.info[k] = old.info[k]
                     /\ "payloadpath" \in DOMAIN new.info
                     /\ Replaces(new.info["payloadpath"], old.info["payloadpath"], f)
                     /\ "update_path" \in DOMAIN new.context
                     /\ Replaces(new.context["update_path"], old.context["update_path"], f)
                     /\ \A k \in DOMAIN old.context \ {"update_path"} :
                            k \in DOMAIN new.context /\ new.context[k] = old.context[k]]_vars

\* C15: a use_file call on an existing regular file leaves the copy inside the
\* static_path directory under the base name of the source, the last path of
\* _extra_files is exactly that file, which exists, and the base name is
\* returned.
C15_StagedInsideStaticDir ==
    (/\ last.op = "use_file" /\ last.raised = "" /\ last.arg \in SourceFiles
     /\ last.name \in DOMAIN templates)
        => LET self == templates[last.name]
               staged == self.extra_files
           IN  /\ last.ret = Basename(last.arg)
               /\ staged # <<>>
               /\ staged[Len(staged)] = JoinPath(self.static_path, Basename(last.arg))
               /\ staged[Len(staged)] \in files

\* C16: when a directory that passes is_valid_template holds a descriptor
\* without the name or the description key, TemplateManager() and
\* add_user_templates raise; neither completes normally leaving a validated
\* directory out of templates, and a KeyError comes from the construction of
\* a template on such a directory.
C16_BrokenDescriptorPropagates ==
    last.op \in {"construct", "add"}
        => /\ (\E n \in ValidDirs(root, files) : ~Constructible(root, n)) => last.raised # ""
           /\ last.raised = "" => ValidDirs(root, files) \subseteq DOMAIN templates
           /\ last.raised = "KeyError"
                 => /\ last.ret.built # <<>>
                    /\ LET n == last.ret.built[Len(last.ret.built)]
                       IN  /\ n \in ValidDirs(root, files)
                           /\ ~Constructible(root, n)
                           /\ n \notin DOMAIN templates

\* add_user_templates raised KeyError on a directory created after construction
C16_Witness ==
    /\ last.op = "add" /\ last.raised = "KeyError"
    /\ phase = "ready"
    /\ \E n \in ValidDirs(root, files) : ~Constructible(root, n) /\ n \notin DOMAIN templates

\* C17: a use_file call on an existing file either returns after a
\* completed copy, with exactly the destination appended to _extra_files, or
\* raises IOError with every template's _extra_files as before; and every
\* path in any _extra_files is the destination of a copy that completed.
C17_FailedCopyNotStaged ==
    [][/\ \A n \in DOMAIN templates' :
             \A p \in Elements(templates'[n].extra_files) : p \in copied'
       /\ \A n \in DOMAIN templates :
             (last'.op = "use_file" /\ last'.name = n /\ last'.arg \in SourceFiles)
                 => LET dest == templates[n].static_path \o Basename(last'.arg)
                    IN  \/ /\ last'.raised = ""
                           /\ last'.ret = Basename(last'.arg)
                           /\ dest \in copied' /\ dest \in files'
                           /\ templates' = [templates EXCEPT ![n].extra_files = Append(@, dest)]
                        \/ /\ last'.raised = "IOError"
                           /\ templates' = templates
                           /\ copied' = copied]_vars

\* a copy failed after its destination was created: the file is on disk and
\* is not staged, next to a file staged by an earlier call
C17_Witness ==
    /\ last.op = "use_file" /\ last.raised = "IOError" /\ last.name \in DOMAIN templates
    /\ LET self == templates[last.name]
           dest == self.static_path \o Basename(last.arg)
       IN  /\ dest \in files
           /\ dest \notin Elements(self.extra_files)
           /\ dest \notin copied
           /\ self.extra_files # <<>>

\* the outcome of TemplateManager() on root fs listed in order with working
\* directory cw: the exception raised and the keys of templates
ManagerOutcome(fs, fl, cw, order) ==
    LET m == NewManager(fs, fl, cw, order)
    IN  [raised |-> m.raised, keys |-> IF m.raised = "" THEN DOMAIN m.templates ELSE {}]

\* C18: the outcome of TemplateManager() and the keys of templates are the
\* same for every content of the current working directory: what a
\* construction gave on this root is what it gives, on the same listing of
\* the root, under any other working directory.
C18_ConstructionIgnoresCwd ==
    last.op = "construct"
        => \A cw \in SUBSET Names :
              ManagerOutcome(root, files, cw, last.arg)
                  = [raised |-> last.raised, keys |-> DOMAIN templates]

\* path p names something inside directory dir
IsInside(p, dir) ==
    /\ Len(p) > Len(dir) + 1
    /\ SubSeq(p, 1, Len(dir)) = dir
    /\ p[Len(dir) + 1] = SEP

\* C19: for every template of the registry, whatever the case of its
\* directory name, path is the html directory is_valid_template listed when
\* it accepted the name, and static_path is inside the template's directory
\* under the root.
C19_PathsOfValidatedDir ==
    \A n \in DOMAIN templates :
        /\ n \in ValidDirs(root, files)
        /\ templates[n].path = HtmlDir(n)
        /\ IsInside(templates[n].static_path, TemplateDir(n))

====
